---- MODULE Spec2Model ----
(***************************************************************************)
(* SkillSwap: the data-access layer (crud.py) and the request layer        *)
(* (main.py) over the tables of models.py, as a state machine.  Every      *)
(* request handler is one action: it runs inside one database session and  *)
(* commits before it returns.                                              *)
(***************************************************************************)
EXTENDS Integers, Sequences, FiniteSets, TLC

VARIABLES users, user_skills, skill_requests, messages, video_sessions,
          bookings, pending, now, last

vars == <<users, user_skills, skill_requests, messages, video_sessions,
          bookings, pending, now, last>>

(***************************************************************************)
(* Bounds of the model and the inputs the requests are drawn from.         *)
(***************************************************************************)
MaxSkillRows == 2
MaxMessages == 3
MaxSessions == 1
MaxBookings == 2
MaxCalls == 2
MaxRequests == 2

Emails == {"a@x.com", "b@x.com", "c@x.com"}
Names == {"Ann", "Bob"}
Passwords == {"pw1", "pw2"}
Skills == {"guitar", "Guitar"}
Levels == {"expert"}
Descriptions == {"want to learn"}
Contents == {"hi"}
RandomHex == {"0a", "0b"}
Statuses == {"created", "active", "ended", "declined", "paused"}

\* timedelta.seconds is the seconds within the day: 0 <= seconds < 3600*24.
SecondsPerDay == 86400

\* The readings of the clock.
ClockValues == {0, 1, SecondsPerDay}

\* A NULL column / a None result is the empty sequence, a value v is <<v>>.
NULL == <<>>
Some(v) == <<v>>

\* Query.first(): the first row of a result, or None.
First(rows) == IF rows = <<>> THEN NULL ELSE Some(Head(rows))

\* The response of the last request handled.
Response(op, args, status, detail, result) ==
    [op |-> op, args |-> args, status |-> status, detail |-> detail, result |-> result]

(***************************************************************************)
(* auth.py is not part of the sources at hand: the hashing primitive is    *)
(* the two-function contract hash(plaintext) -> digest,                    *)
(* verify(plaintext, digest) -> bool.                                      *)
(***************************************************************************)
hash_password(password) == <<"digest", password>>

verify_password(password, digest) == digest = hash_password(password)

(***************************************************************************)
(* User directory                                                          *)
(***************************************************************************)
get_user_by_email(email) == First(SelectSeq(users, LAMBDA u : u.email = email))

get_user_by_id(user_id) == First(SelectSeq(users, LAMBDA u : u.id = user_id))

\* The row create_user adds: the id is the autoincremented primary key.
NewUserRow(name, email, password) ==
    [id |-> Len(users) + 1, name |-> name, email |-> email,
     password |-> hash_password(password)]

create_user(name, email, password) == Append(users, NewUserRow(name, email, password))

UserResponse(u) == [id |-> u.id, name |-> u.name, email |-> u.email]

\* register_user without the lookup of the email.
register_user_unchecked(name, email, password) ==
    /\ users' = create_user(name, email, password)
    /\ last' = Response("register", <<name, email, password>>, 200, "",
                        Some(UserResponse(NewUserRow(name, email, password))))
    /\ UNCHANGED <<user_skills, skill_requests, messages, video_sessions, now, bookings, pending>>

\* POST /register
register_user(name, email, password) ==
    /\ IF get_user_by_email(email) # NULL
       THEN /\ last' = Response("register", <<name, email, password>>, 400,
                                "Email already registered", NULL)
            /\ UNCHANGED users
       ELSE /\ users' = create_user(name, email, password)
            /\ last' = Response("register", <<name, email, password>>, 200, "",
                                Some(UserResponse(NewUserRow(name, email, password))))
    /\ UNCHANGED <<user_skills, skill_requests, messages, video_sessions, now, bookings, pending>>

\* POST /register-user
register_user_frontend(name, email, password) ==
    /\ IF get_user_by_email(email) # NULL
       THEN /\ last' = Response("register-user", <<name, email, password>>, 200,
                                "Email already registered", NULL)
            /\ UNCHANGED users
       ELSE /\ users' = create_user(name, email, password)
            /\ last' = Response("register-user", <<name, email, password>>, 303, "",
                                Some(email))
    /\ UNCHANGED <<user_skills, skill_requests, messages, video_sessions, now, bookings, pending>>

\* Registration as the steps of a request that other requests interleave
\* with.  Each request has its own database session; pending[k] is request k:
\* its endpoint and body, its position (pc) and, once done, its outcome.
\* A request arrives.
begin_register(endpoint, name, email, password) ==
    /\ Len(pending) < MaxRequests
    /\ pending' = Append(pending, [endpoint |-> endpoint, name |-> name,
                                   email |-> email, password |-> password,
                                   pc |-> "check", outcome |-> "none"])
    /\ last' = Response("begin", <<endpoint, name, email, password>>, 0, "", NULL)
    /\ UNCHANGED <<users, user_skills, skill_requests, messages, video_sessions,
                   bookings, now>>

\* db_user = crud.get_user_by_email(db, email); "if db_user:" answers that the
\* email is taken (400 on /register, the form page with the error on
\* /register-user) and the request is done.
register_check(k) ==
    LET req == pending[k] IN
    /\ req.pc = "check"
    /\ IF get_user_by_email(req.email) # NULL
       THEN /\ pending' = [pending EXCEPT ![k].pc = "done", ![k].outcome = "conflict"]
            /\ last' = Response(req.endpoint, <<req.name, req.email, req.password>>,
                                IF req.endpoint = "register" THEN 400 ELSE 200,
                                "Email already registered", NULL)
       ELSE /\ pending' = [pending EXCEPT ![k].pc = "insert"]
            /\ last' = Response("check", <<k>>, 0, "", NULL)
    /\ UNCHANGED <<users, user_skills, skill_requests, messages, video_sessions,
                   bookings, now>>

\* crud.create_user: db.add(new_user); db.commit().  users.email is a unique
\* column: when a row with the email has been committed since the lookup, the
\* INSERT raises IntegrityError, which no handler catches (500).
register_insert(k) ==
    LET req == pending[k] IN
    /\ req.pc = "insert"
    /\ IF get_user_by_email(req.email) # NULL
       THEN /\ pending' = [pending EXCEPT ![k].pc = "done", ![k].outcome = "unhandled"]
            /\ last' = Response(req.endpoint, <<req.name, req.email, req.password>>,
                                500, "IntegrityError", NULL)
            /\ UNCHANGED users
       ELSE /\ users' = create_user(req.name, req.email, req.password)
            /\ pending' = [pending EXCEPT ![k].pc = "done", ![k].outcome = "created"]
            /\ last' = Response(req.endpoint, <<req.name, req.email, req.password>>,
                                IF req.endpoint = "register" THEN 200 ELSE 303, "",
                                Some(req.email))
    /\ UNCHANGED <<user_skills, skill_requests, messages, video_sessions,
                   bookings, now>>

\* LoginOutcome that verifies before it looks at the lookup's result.
LoginOutcome_verify_first(email, password) ==
    LET user == get_user_by_email(email)
        is_valid == user # NULL /\ verify_password(password, user[1].password)
    IN IF ~is_valid
       THEN [outcome |-> "invalid", verify_calls |-> 1]
       ELSE [outcome |-> "ok", verify_calls |-> 1]

\* What a login handler decides: "not_found" without calling verify_password,
\* else the verdict of verify_password on the stored digest.
LoginOutcome(email, password) ==
    LET user == get_user_by_email(email) IN
    IF user = NULL
    THEN [outcome |-> "not_found", verify_calls |-> 0]
    ELSE IF ~verify_password(password, user[1].password)
         THEN [outcome |-> "invalid", verify_calls |-> 1]
         ELSE [outcome |-> "ok", verify_calls |-> 1]

\* POST /login-user
login_user_frontend(email, password) ==
    LET r == LoginOutcome(email, password) IN
    /\ last' = Response("login-user", <<email, password>>,
                        IF r.outcome = "ok" THEN 303 ELSE 200,
                        CASE r.outcome = "not_found" -> "User not found"
                          [] r.outcome = "invalid" -> "Invalid password"
                          [] OTHER -> "",
                        r)
    /\ UNCHANGED <<users, user_skills, skill_requests, messages, video_sessions,
                   now, bookings, pending>>

\* POST /verify-password
verify_user_password(email, password) ==
    LET r == LoginOutcome(email, password) IN
    /\ last' = Response("verify-password", <<email, password>>,
                        IF r.outcome = "not_found" THEN 404 ELSE 200,
                        IF r.outcome = "not_found" THEN "User not found" ELSE "",
                        r)
    /\ UNCHANGED <<users, user_skills, skill_requests, messages, video_sessions,
                   now, bookings, pending>>

\* POST /users/{email}/update
update_profile(email, name) ==
    /\ IF get_user_by_email(email) = NULL
       THEN /\ last' = Response("update", <<email, name>>, 404, "Not Found", NULL)
            /\ UNCHANGED users
       ELSE /\ users' = [i \in DOMAIN users |->
                           IF users[i].email = email
                           THEN [users[i] EXCEPT !.name = name]
                           ELSE users[i]]
            /\ last' = Response("update", <<email, name>>, 303, "", Some(email))
    /\ UNCHANGED <<user_skills, skill_requests, messages, video_sessions, now, bookings, pending>>

(***************************************************************************)
(* Skill catalog                                                           *)
(***************************************************************************)
\* POST /users/{email}/skills/offer -> crud.add_skill_offer_by_email
add_skill_offer(email, skill_name, skill_level) ==
    LET user == get_user_by_email(email) IN
    /\ Len(user_skills) < MaxSkillRows
    /\ IF user = NULL
       THEN /\ last' = Response("offer", <<email, skill_name, skill_level>>, 404,
                                "User not found", NULL)
            /\ UNCHANGED user_skills
       ELSE LET new_skill == [id |-> Len(user_skills) + 1, user_id |-> user[1].id,
                              skill_name |-> skill_name, skill_level |-> skill_level]
            IN /\ user_skills' = Append(user_skills, new_skill)
               /\ last' = Response("offer", <<email, skill_name, skill_level>>, 200,
                                   "Skill added successfully", Some(new_skill))
    /\ UNCHANGED <<users, skill_requests, messages, video_sessions, now, bookings, pending>>

\* POST /users/{email}/skills/request -> crud.add_skill_request_by_email
add_skill_request(email, skill_name, description) ==
    LET user == get_user_by_email(email) IN
    /\ Len(skill_requests) < MaxSkillRows
    /\ IF user = NULL
       THEN /\ last' = Response("request", <<email, skill_name, description>>, 404,
                                "User not found", NULL)
            /\ UNCHANGED skill_requests
       ELSE LET new_request == [id |-> Len(skill_requests) + 1, user_id |-> user[1].id,
                                skill_name |-> skill_name, description |-> description]
            IN /\ skill_requests' = Append(skill_requests, new_request)
               /\ last' = Response("request", <<email, skill_name, description>>, 200,
                                   "Skill request added successfully", Some(new_request))
    /\ UNCHANGED <<users, user_skills, messages, video_sessions, now, bookings, pending>>

(***************************************************************************)
(* Matching                                                                *)
(***************************************************************************)
RECURSIVE Concat(_)
Concat(seqs) == IF seqs = <<>> THEN <<>> ELSE Head(seqs) \o Concat(Tail(seqs))

\* The relationships User.skills_offered and User.skills_needed.
skills_offered(user) == SelectSeq(user_skills, LAMBDA s : s.user_id = user.id)

skills_needed(user) == SelectSeq(skill_requests, LAMBDA r : r.user_id = user.id)

\* RequestsToTeach without the filter on the skill name.
RequestsToTeach_any_skill(user, offered_skill) ==
    SelectSeq(skill_requests, LAMBDA r : r.user_id # user.id)

\* The inner loop of the first pass: the requests of other users for the skill.
RequestsToTeach(user, offered_skill) ==
    SelectSeq(SelectSeq(skill_requests,
                        LAMBDA r : r.skill_name = offered_skill.skill_name),
              LAMBDA r : r.user_id # user.id)

\* OffersToLearn without the "don't match with self" test.
OffersToLearn_with_self(user, needed_skill) ==
    SelectSeq(user_skills, LAMBDA o : o.skill_name = needed_skill.skill_name)

\* The inner loop of the second pass: the offers of other users for the skill.
OffersToLearn(user, needed_skill) ==
    SelectSeq(SelectSeq(user_skills,
                        LAMBDA o : o.skill_name = needed_skill.skill_name),
              LAMBDA o : o.user_id # user.id)

\* The (offered_skill, request) pairs of the first pass, in loop order.
TeachPairs(user) ==
    LET offered == skills_offered(user) IN
    Concat([i \in DOMAIN offered |->
              LET reqs == RequestsToTeach(user, offered[i]) IN
              [j \in DOMAIN reqs |-> <<offered[i], reqs[j]>>]])

\* LearnPairs keeping, for each needed skill, only the first matching offer.
LearnPairs_first_offer_only(user) ==
    LET needed == skills_needed(user) IN
    Concat([i \in DOMAIN needed |->
              LET offs == OffersToLearn(user, needed[i]) IN
              IF offs = <<>> THEN <<>> ELSE << <<needed[i], offs[1]>> >>])

\* The (needed_skill, offer) pairs of the second pass, in loop order.
LearnPairs(user) ==
    LET needed == skills_needed(user) IN
    Concat([i \in DOMAIN needed |->
              LET offs == OffersToLearn(user, needed[i]) IN
              [j \in DOMAIN offs |-> <<needed[i], offs[j]>>]])

\* The record appended for a pair of the first pass.
TeachRecord(pair) ==
    LET offered_skill == pair[1]
        request == pair[2]
        requester == get_user_by_id(request.user_id)[1]
    IN [match_type |-> "you_can_teach",
        your_skill |-> offered_skill.skill_name,
        their_skill_level |-> offered_skill.skill_level,
        matched_user |-> [email |-> requester.email, name |-> requester.name],
        their_request |-> request.description]

\* The record appended for a pair of the second pass.
LearnRecord(pair) ==
    LET needed_skill == pair[1]
        offer == pair[2]
        offerer == get_user_by_id(offer.user_id)[1]
    IN [match_type |-> "you_can_learn",
        skill_you_need |-> needed_skill.skill_name,
        their_skill_level |-> offer.skill_level,
        matched_user |-> [email |-> offerer.email, name |-> offerer.name],
        their_offer |-> <<"Can teach ", offer.skill_name, " at ", offer.skill_level,
                          " level">>]

find_matches_by_email(email) ==
    LET user == get_user_by_email(email) IN
    IF user = NULL
    THEN <<>>
    ELSE LET teach == TeachPairs(user[1])
             learn == LearnPairs(user[1])
         IN [i \in DOMAIN teach |-> TeachRecord(teach[i])]
            \o [i \in DOMAIN learn |-> LearnRecord(learn[i])]

\* GET /users/{email}/matches
get_user_matches(email) ==
    LET matches == find_matches_by_email(email)
        user == get_user_by_email(email)
    IN
    /\ IF user = NULL
       THEN last' = Response("matches", <<email>>, 404, "User not found", NULL)
       ELSE last' = Response("matches", <<email>>, 200, "",
                             Some([user_email |-> email, user_name |-> user[1].name,
                                   matches_found |-> Len(matches),
                                   matches |-> matches]))
    /\ UNCHANGED <<users, user_skills, skill_requests, messages, video_sessions,
                   now, bookings, pending>>

(***************************************************************************)
(* Clock: datetime.utcnow() and the database's now(), in whole seconds.    *)
(* A step moves the wall clock by d seconds (d < 0: the clock is set back).*)
(***************************************************************************)
clock_step(d) ==
    /\ now + d \in ClockValues
    /\ now' = now + d
    /\ last' = Response("clock", <<d>>, 0, "", NULL)
    /\ UNCHANGED <<users, user_skills, skill_requests, messages, video_sessions, bookings, pending>>

(***************************************************************************)
(* Messaging                                                               *)
(***************************************************************************)
\* send_message with the sender and the receiver of the new row exchanged.
send_message_swapped(sender_email, receiver_email, content) ==
    LET sender == get_user_by_email(sender_email)
        receiver == get_user_by_email(receiver_email)
    IN
    /\ Len(messages) < MaxMessages
    /\ IF sender = NULL \/ receiver = NULL
       THEN /\ last' = Response("send", <<sender_email, receiver_email, content>>, 404,
                                "User not found", NULL)
            /\ UNCHANGED messages
       ELSE LET new_message == [id |-> Len(messages) + 1,
                                sender_id |-> receiver[1].id,
                                receiver_id |-> sender[1].id,
                                content |-> content,
                                timestamp |-> now,
                                is_read |-> 0]
            IN /\ messages' = Append(messages, new_message)
               /\ last' = Response("send", <<sender_email, receiver_email, content>>, 200,
                                   "Message sent successfully", Some(new_message.id))
    /\ UNCHANGED <<users, user_skills, skill_requests, video_sessions, now, bookings, pending>>

\* POST /messages/send -> crud.send_message
send_message(sender_email, receiver_email, content) ==
    LET sender == get_user_by_email(sender_email)
        receiver == get_user_by_email(receiver_email)
    IN
    /\ Len(messages) < MaxMessages
    /\ IF sender = NULL \/ receiver = NULL
       THEN /\ last' = Response("send", <<sender_email, receiver_email, content>>, 404,
                                "User not found", NULL)
            /\ UNCHANGED messages
       ELSE LET new_message == [id |-> Len(messages) + 1,
                                sender_id |-> sender[1].id,
                                receiver_id |-> receiver[1].id,
                                content |-> content,
                                timestamp |-> now,
                                is_read |-> 0]
            IN /\ messages' = Append(messages, new_message)
               /\ last' = Response("send", <<sender_email, receiver_email, content>>, 200,
                                   "Message sent successfully", Some(new_message.id))
    /\ UNCHANGED <<users, user_skills, skill_requests, video_sessions, now, bookings, pending>>

\* The filter of get_conversation: the rows between user1 and user2, by id.
ConversationRows_one_way(user1, user2) ==
    SelectSeq(messages,
              LAMBDA m : m.sender_id = user1.id /\ m.receiver_id = user2.id)

ConversationRows(user1, user2) ==
    SelectSeq(messages,
              LAMBDA m : \/ (m.sender_id = user1.id /\ m.receiver_id = user2.id)
                         \/ (m.sender_id = user2.id /\ m.receiver_id = user1.id))

\* ORDER BY timestamp ASC: the orders of the rows the database may return
\* (rows with equal timestamps come in any order).
OrderByTimestampAsc(rows) ==
    {[i \in DOMAIN rows |-> rows[p[i]]] : p \in
        {q \in Permutations(DOMAIN rows) :
            \A i, j \in DOMAIN rows :
                i < j => rows[q[i]].timestamp <= rows[q[j]].timestamp}}

\* The dict get_conversation builds for a row.
ConversationEntry(msg) ==
    LET sender == get_user_by_id(msg.sender_id)
        receiver == get_user_by_id(msg.receiver_id)
    IN [id |-> msg.id,
        sender_id |-> msg.sender_id,
        sender_email |-> IF sender # NULL THEN Some(sender[1].email) ELSE NULL,
        sender_name |-> IF sender # NULL THEN sender[1].name ELSE "Unknown",
        receiver_id |-> msg.receiver_id,
        receiver_email |-> IF receiver # NULL THEN Some(receiver[1].email) ELSE NULL,
        receiver_name |-> IF receiver # NULL THEN receiver[1].name ELSE "Unknown",
        content |-> msg.content,
        timestamp |-> msg.timestamp,
        is_read |-> (msg.is_read = 1)]

\* The lists crud.get_conversation may return.
get_conversation(user1_email, user2_email) ==
    LET user1 == get_user_by_email(user1_email)
        user2 == get_user_by_email(user2_email)
    IN IF user1 = NULL \/ user2 = NULL
       THEN {<<>>}
       ELSE {[i \in DOMAIN rows |-> ConversationEntry(rows[i])] :
                rows \in OrderByTimestampAsc(ConversationRows(user1[1], user2[1]))}

\* GET /messages/conversation/{user1_email}/{user2_email}
get_conversation_endpoint(user1_email, user2_email) ==
    /\ \E conversation \in get_conversation(user1_email, user2_email) :
          last' = Response("conversation", <<user1_email, user2_email>>, 200, "",
                           conversation)
    /\ UNCHANGED <<users, user_skills, skill_requests, messages, video_sessions,
                   now, bookings, pending>>

\* ORDER BY timestamp DESC: the orders of the rows the database may return.
OrderByTimestampDesc(rows) ==
    {[i \in DOMAIN rows |-> rows[p[i]]] : p \in
        {q \in Permutations(DOMAIN rows) :
            \A i, j \in DOMAIN rows :
                i < j => rows[q[i]].timestamp >= rows[q[j]].timestamp}}

\* The dict get_user_messages builds for a row.
UserMessageEntry(msg) ==
    LET sender == get_user_by_id(msg.sender_id)
        receiver == get_user_by_id(msg.receiver_id)
    IN [id |-> msg.id,
        sender_id |-> msg.sender_id,
        sender_email |-> IF sender # NULL THEN Some(sender[1].email) ELSE NULL,
        sender_name |-> IF sender # NULL THEN Some(sender[1].name) ELSE NULL,
        receiver_id |-> msg.receiver_id,
        receiver_email |-> IF receiver # NULL THEN Some(receiver[1].email) ELSE NULL,
        receiver_name |-> IF receiver # NULL THEN Some(receiver[1].name) ELSE NULL,
        content |-> msg.content,
        timestamp |-> msg.timestamp,
        is_read |-> msg.is_read]

\* The lists crud.get_user_messages may return: the messages the user sent or
\* received, newest first.
get_user_messages(user_email) ==
    LET user == get_user_by_email(user_email) IN
    IF user = NULL
    THEN {<<>>}
    ELSE {[i \in DOMAIN rows |-> UserMessageEntry(rows[i])] :
             rows \in OrderByTimestampDesc(
                        SelectSeq(messages,
                                  LAMBDA m : \/ m.sender_id = user[1].id
                                             \/ m.receiver_id = user[1].id))}

\* GET /messages/{user_email}
get_messages_endpoint(user_email) ==
    /\ \E result \in get_user_messages(user_email) :
          last' = Response("messages", <<user_email>>, 200, "", result)
    /\ UNCHANGED <<users, user_skills, skill_requests, messages, video_sessions,
                   now, bookings, pending>>

\* The rows mark_messages_as_read updates, without the test on the sender.
RowsToMark_any_sender(user, other_user) ==
    {i \in DOMAIN messages :
        messages[i].receiver_id = user.id /\ messages[i].is_read = 0}

\* The rows mark_messages_as_read updates, without the test on the read flag.
RowsToMark_read_or_unread(user, other_user) ==
    {i \in DOMAIN messages :
        /\ messages[i].sender_id = other_user.id
        /\ messages[i].receiver_id = user.id}

\* The rows mark_messages_as_read updates.
RowsToMark(user, other_user) ==
    {i \in DOMAIN messages :
        /\ messages[i].sender_id = other_user.id
        /\ messages[i].receiver_id = user.id
        /\ messages[i].is_read = 0}

\* POST /messages/mark-read/{user_email}/{other_user_email}
\*   -> crud.mark_messages_as_read
mark_messages_as_read(user_email, other_user_email) ==
    LET user == get_user_by_email(user_email)
        other_user == get_user_by_email(other_user_email)
    IN
    /\ IF user = NULL \/ other_user = NULL
       THEN /\ last' = Response("mark-read", <<user_email, other_user_email>>, 200, "", 0)
            /\ UNCHANGED messages
       ELSE LET updated == RowsToMark(user[1], other_user[1]) IN
            /\ messages' = [i \in DOMAIN messages |->
                              IF i \in updated
                              THEN [messages[i] EXCEPT !.is_read = 1]
                              ELSE messages[i]]
            /\ last' = Response("mark-read", <<user_email, other_user_email>>, 200, "",
                                Cardinality(updated))
    /\ UNCHANGED <<users, user_skills, skill_requests, video_sessions, now, bookings, pending>>

get_unread_count(user_email) ==
    LET user == get_user_by_email(user_email) IN
    IF user = NULL
    THEN 0
    ELSE Cardinality({i \in DOMAIN messages :
                         /\ messages[i].receiver_id = user[1].id
                         /\ messages[i].is_read = 0})

\* GET /messages/unread/{user_email}
get_unread_count_endpoint(user_email) ==
    /\ last' = Response("unread", <<user_email>>, 200, "", get_unread_count(user_email))
    /\ UNCHANGED <<users, user_skills, skill_requests, messages, video_sessions,
                   now, bookings, pending>>

(***************************************************************************)
(* Video session bookkeeping                                               *)
(***************************************************************************)
\* f"skillswap-{timestamp}-{random_str}"
RoomId(timestamp, random_str) == <<"skillswap", timestamp, random_str>>

\* Query(...).filter(room_id == room_id).first(), as the index of the row (0: None).
SessionByRoom(room_id) ==
    LET found == {i \in DOMAIN video_sessions : video_sessions[i].room_id = room_id}
    IN IF found = {} THEN 0 ELSE CHOOSE i \in found : \A j \in found : i <= j

\* POST /video/create -> crud.create_video_session; random_str is the value
\* secrets.token_hex(4) returns.  room_id is a unique column: a second row
\* with the same room_id is refused by the database and the error propagates.
create_video_session(user1_email, user2_email, random_str) ==
    LET room_id == RoomId(now, random_str)
        new_session == [id |-> Len(video_sessions) + 1,
                        room_id |-> room_id,
                        user1_email |-> user1_email,
                        user2_email |-> user2_email,
                        meeting_url |-> <<"https://meet.jit.si/", room_id>>,
                        status |-> "created",
                        created_at |-> now,
                        started_at |-> NULL,
                        ended_at |-> NULL,
                        duration_seconds |-> NULL]
    IN
    /\ IF SessionByRoom(room_id) # 0
       THEN /\ last' = Response("video-create", <<user1_email, user2_email>>, 500,
                                "IntegrityError", NULL)
            /\ UNCHANGED video_sessions
       ELSE /\ video_sessions' = Append(video_sessions, new_session)
            /\ last' = Response("video-create", <<user1_email, user2_email>>, 200, "",
                                Some(room_id))
    /\ UNCHANGED <<users, user_skills, skill_requests, messages, now, bookings, pending>>

\* timedelta.seconds of a difference of elapsed whole seconds.
timedelta_seconds(elapsed) == elapsed % SecondsPerDay

\* StatusUpdated without the "not session.started_at" test.
StatusUpdated_restamp(session, status) ==
    IF status = "active"
    THEN [session EXCEPT !.status = status, !.started_at = Some(now)]
    ELSE IF status = "ended"
         THEN IF session.started_at # NULL
              THEN [session EXCEPT
                      !.status = status,
                      !.ended_at = Some(now),
                      !.duration_seconds =
                          Some(timedelta_seconds(now - session.started_at[1]))]
              ELSE [session EXCEPT !.status = status, !.ended_at = Some(now)]
         ELSE [session EXCEPT !.status = status]

\* StatusUpdated whose "ended" branch records a duration also when started_at
\* is not set, counting from created_at.
StatusUpdated_unstarted_duration(session, status) ==
    IF status = "active" /\ session.started_at = NULL
    THEN [session EXCEPT !.status = status, !.started_at = Some(now)]
    ELSE IF status = "ended"
         THEN [session EXCEPT
                 !.status = status,
                 !.ended_at = Some(now),
                 !.duration_seconds =
                     Some(timedelta_seconds(
                            now - (IF session.started_at # NULL
                                   THEN session.started_at[1]
                                   ELSE session.created_at)))]
         ELSE [session EXCEPT !.status = status]

\* The row after the body of "if session:" in update_video_session_status.
\* Both datetime.utcnow() calls of the "ended" branch read the same second.
StatusUpdated(session, status) ==
    IF status = "active" /\ session.started_at = NULL
    THEN [session EXCEPT !.status = status, !.started_at = Some(now)]
    ELSE IF status = "ended"
         THEN IF session.started_at # NULL
              THEN [session EXCEPT
                      !.status = status,
                      !.ended_at = Some(now),
                      !.duration_seconds =
                          Some(timedelta_seconds(now - session.started_at[1]))]
              ELSE [session EXCEPT !.status = status, !.ended_at = Some(now)]
         ELSE [session EXCEPT !.status = status]

\* POST /video/update-status/{room_id} -> crud.update_video_session_status
update_session_status(room_id, status) ==
    LET i == SessionByRoom(room_id) IN
    /\ IF i = 0
       THEN /\ last' = Response("video-status", <<room_id, status>>, 404,
                                "Session not found", NULL)
            /\ UNCHANGED video_sessions
       ELSE /\ video_sessions' =
                  [video_sessions EXCEPT ![i] = StatusUpdated(video_sessions[i], status)]
            /\ last' = Response("video-status", <<room_id, status>>, 200, "", Some(i))
    /\ UNCHANGED <<users, user_skills, skill_requests, messages, now, bookings, pending>>

\* GET /video/room/{room_id}
get_video_room_info(room_id) ==
    LET i == SessionByRoom(room_id) IN
    /\ IF i = 0
       THEN last' = Response("video-room", <<room_id>>, 404, "Room not found", NULL)
       ELSE LET session == video_sessions[i] IN
            last' = Response("video-room", <<room_id>>, 200, "",
                             Some([room_id |-> session.room_id,
                                   user1_email |-> session.user1_email,
                                   user2_email |-> session.user2_email,
                                   meeting_url |-> session.meeting_url,
                                   status |-> session.status,
                                   created_at |-> session.created_at]))
    /\ UNCHANGED <<users, user_skills, skill_requests, messages, video_sessions,
                   now, bookings, pending>>

\* POST /video/decline/{room_id} -> crud.decline_video_call
decline_call_endpoint(room_id) ==
    LET i == SessionByRoom(room_id) IN
    /\ IF i = 0
       THEN UNCHANGED video_sessions
       ELSE video_sessions' = [video_sessions EXCEPT ![i].status = "declined"]
    /\ last' = Response("video-decline", <<room_id>>, 200, "Call declined",
                        IF i = 0 THEN NULL ELSE Some(i))
    /\ UNCHANGED <<users, user_skills, skill_requests, messages, now, bookings, pending>>

\* The filter of get_active_video_call matching either participant.
RingingCalls_either_party(email) ==
    {i \in DOMAIN video_sessions :
        /\ (\/ video_sessions[i].user1_email = email
            \/ video_sessions[i].user2_email = email)
        /\ video_sessions[i].status = "created"}

\* The filter of get_active_video_call: the rows with user2_email == email
\* and status == "created".
RingingCalls(email) ==
    {i \in DOMAIN video_sessions :
        /\ video_sessions[i].user2_email = email
        /\ video_sessions[i].status = "created"}

\* crud.get_active_video_call: the rows .order_by(created_at.desc()).first()
\* may return (rows created in the same second come in any order), or NULL.
get_active_video_call(email) ==
    LET calls == RingingCalls(email) IN
    IF calls = {}
    THEN {NULL}
    ELSE {Some(video_sessions[i]) : i \in
            {c \in calls : \A d \in calls :
                video_sessions[d].created_at <= video_sessions[c].created_at}}

\* GET /video/check-incoming/{email}
check_incoming_call(email) ==
    /\ \E call \in get_active_video_call(email) :
          last' = Response("check-incoming", <<email>>, 200, "",
                           IF call # NULL
                           THEN [has_call |-> TRUE,
                                 room_id |-> call[1].room_id,
                                 caller |-> call[1].user1_email]
                           ELSE [has_call |-> FALSE])
    /\ UNCHANGED <<users, user_skills, skill_requests, messages, video_sessions,
                   now, bookings, pending>>

(***************************************************************************)
(* Bookings                                                                *)
(***************************************************************************)
BookingStatuses == {"pending", "accepted", "declined", "cancelled"}

\* crud.create_booking: appends one Booking row.  The status column is left
\* to its default, "pending", and created_at to the server clock.
create_booking(learner_email, teacher_email, skill_name, date, time) ==
    Append(bookings, [id |-> Len(bookings) + 1,
                      learner_email |-> learner_email,
                      teacher_email |-> teacher_email,
                      skill_name |-> skill_name,
                      session_date |-> date,
                      session_time |-> time,
                      status |-> "pending",
                      created_at |-> now])

\* POST /api/bookings/request: stores the booking and redirects (303).
request_booking(learner_email, teacher_email, skill_name, date, time) ==
    /\ Len(bookings) < MaxBookings
    /\ bookings' = create_booking(learner_email, teacher_email, skill_name, date, time)
    /\ last' = Response("booking-request", <<learner_email, teacher_email>>, 303, "",
                        Some(Len(bookings) + 1))
    /\ UNCHANGED <<users, user_skills, skill_requests, messages, video_sessions,
                   pending, now>>

\* POST /api/bookings/{booking_id}/update: the row with that id, if any, gets
\* the submitted status string; the answer is {"status": "updated"} either way.
update_booking_status(booking_id, status) ==
    /\ IF booking_id \in DOMAIN bookings
       THEN bookings' = [bookings EXCEPT ![booking_id].status = status]
       ELSE UNCHANGED bookings
    /\ last' = Response("booking-update", <<booking_id, status>>, 200, "updated", NULL)
    /\ UNCHANGED <<users, user_skills, skill_requests, messages, video_sessions,
                   pending, now>>

(***************************************************************************)
(* Initial state: empty tables, no request handled yet.                    *)
(***************************************************************************)
Init ==
    /\ users = <<>>
    /\ user_skills = <<>>
    /\ skill_requests = <<>>
    /\ messages = <<>>
    /\ video_sessions = <<>>
    /\ bookings = <<>>
    /\ pending = <<>>
    /\ now = 0
    /\ last = Response("start", <<>>, 0, "", NULL)

UserEmails == {"a@x.com", "b@x.com"}

NextUsers ==
    \/ \E n \in Names, e \in UserEmails, p \in Passwords : register_user(n, e, p)
    \/ \E n \in Names, e \in UserEmails, p \in Passwords : register_user_frontend(n, e, p)
    \/ \E e \in UserEmails, p \in Passwords : login_user_frontend(e, p)
    \/ \E e \in UserEmails, p \in Passwords : verify_user_password(e, p)
    \/ \E e \in UserEmails, n \in Names : update_profile(e, n)

SpecUsers == Init /\ [][NextUsers]_vars

MatchEmails == {"a@x.com", "b@x.com"}

NextMatch ==
    \/ \E e \in MatchEmails : register_user("Ann", e, "pw1")
    \/ \E e \in MatchEmails, s \in Skills, l \in Levels : add_skill_offer(e, s, l)
    \/ \E e \in MatchEmails, s \in Skills, d \in Descriptions : add_skill_request(e, s, d)
    \/ \E e \in MatchEmails : get_user_matches(e)

SpecMatch == Init /\ [][NextMatch]_vars

\* The (sender, receiver) pairs messages are sent between.
SendPairs == {<<"a@x.com", "b@x.com">>, <<"b@x.com", "a@x.com">>, <<"c@x.com", "a@x.com">>}

NextMsg ==
    \/ \E e \in Emails : register_user("Ann", e, "pw1")
    \/ \E q \in SendPairs, c \in Contents : send_message(q[1], q[2], c)
    \/ \E a \in Emails, b \in Emails : mark_messages_as_read(a, b)
    \/ \E e \in Emails : get_unread_count_endpoint(e)

SpecMsg == Init /\ [][NextMsg]_vars

\* The pairs of users whose conversation is asked for.
ConversationArgs ==
    SendPairs \cup {<<"a@x.com", "c@x.com">>, <<"b@x.com", "c@x.com">>}

NextConv ==
    \/ \E e \in Emails : register_user("Ann", e, "pw1")
    \/ \E d \in {-1, 1} : clock_step(d)
    \/ \E q \in SendPairs, c \in Contents : send_message(q[1], q[2], c)
    \/ \E q \in ConversationArgs : get_conversation_endpoint(q[1], q[2])

SpecConv == Init /\ [][NextConv]_vars

\* The room ids requests name: the rooms of the stored sessions and an unknown one.
RoomIds == {video_sessions[i].room_id : i \in DOMAIN video_sessions}
              \cup {RoomId(0, "ff")}

NextVideo ==
    \/ \E d \in {1, SecondsPerDay - 1, SecondsPerDay} : clock_step(d)
    \/ /\ Len(video_sessions) < MaxSessions
       /\ \E h \in RandomHex : create_video_session("a@x.com", "b@x.com", h)
    \/ \E r \in RoomIds, st \in Statuses : update_session_status(r, st)
    \/ \E r \in RoomIds : decline_call_endpoint(r)

SpecVideo == Init /\ [][NextVideo]_vars

\* Booking requests and status updates; ids range over the stored bookings and
\* one id that is not stored.
BookingIds == 1..(Len(bookings) + 1)

NextBookings ==
    \/ \E l \in {"a@x.com", "b@x.com"} :
          request_booking(l, "c@x.com", "guitar", "2026-01-01", "10:00")
    \/ \E b \in BookingIds, st \in BookingStatuses : update_booking_status(b, st)

SpecBookings == Init /\ [][NextBookings]_vars

\* The requests that name a user, a session or a room, with one registered
\* user (a@x.com), one email that is never registered (b@x.com), the stored
\* rooms and one unknown room.
LookupEmails == {"a@x.com", "b@x.com"}

NextLookup ==
    \/ register_user("Ann", "a@x.com", "pw1")
    \/ \E e \in LookupEmails : get_user_matches(e)
    \/ \E e \in LookupEmails : add_skill_offer(e, "guitar", "expert")
    \/ \E e \in LookupEmails : add_skill_request(e, "guitar", "want to learn")
    \/ \E e \in LookupEmails : send_message(e, "a@x.com", "hi")
    \/ \E e \in LookupEmails : get_messages_endpoint(e)
    \/ \E e \in LookupEmails : get_conversation_endpoint(e, "a@x.com")
    \/ \E e \in LookupEmails : mark_messages_as_read("a@x.com", e)
    \/ \E e \in LookupEmails : get_unread_count_endpoint(e)
    \/ /\ Len(video_sessions) < MaxSessions
       /\ create_video_session("a@x.com", "b@x.com", "0a")
    \/ \E r \in RoomIds : update_session_status(r, "active")
    \/ \E r \in RoomIds : get_video_room_info(r)
    \/ \E r \in RoomIds : decline_call_endpoint(r)

SpecLookup == Init /\ [][NextLookup]_vars

\* Calls between two users in both directions, polled by both; a call is
\* answered ("active") or declined.
CallPairs == {<<"a@x.com", "b@x.com">>, <<"b@x.com", "a@x.com">>}

NextCalls ==
    \/ \E d \in {1, SecondsPerDay - 1} : clock_step(d)
    \/ /\ Len(video_sessions) < MaxCalls
       /\ \E q \in CallPairs, h \in RandomHex : create_video_session(q[1], q[2], h)
    \/ \E r \in RoomIds : update_session_status(r, "active")
    \/ \E r \in RoomIds : decline_call_endpoint(r)
    \/ \E e \in {"a@x.com", "b@x.com"} : check_incoming_call(e)

SpecCalls == Init /\ [][NextCalls]_vars

\* Concurrent registrations on both endpoints, for two emails.
RegisterEndpoints == {"register", "register-user"}

NextRace ==
    \/ \E ep \in RegisterEndpoints, n \in Names, e \in {"a@x.com", "b@x.com"} :
          begin_register(ep, n, e, "pw1")
    \/ \E k \in DOMAIN pending : register_check(k)
    \/ \E k \in DOMAIN pending : register_insert(k)

SpecRace == Init /\ [][NextRace]_vars

\* Send, mark-read, unread-count and conversation requests in any order,
\* between two users who register at any point.
InboxEmails == {"a@x.com", "b@x.com"}

NextInbox ==
    \/ \E e \in InboxEmails : register_user("Ann", e, "pw1")
    \/ \E a, b \in InboxEmails, c \in Contents : send_message(a, b, c)
    \/ \E a, b \in InboxEmails : mark_messages_as_read(a, b)
    \/ \E e \in InboxEmails : get_unread_count_endpoint(e)
    \/ \E a, b \in InboxEmails : get_conversation_endpoint(a, b)

SpecInbox == Init /\ [][NextInbox]_vars

(***************************************************************************)
(* Properties                                                              *)
(***************************************************************************)
RegisterOps == {"register", "register-user"}
LoginOps == {"login-user", "verify-password"}

\* C1: a register call (POST /register or POST /register-user) whose email
\* already belongs to a stored user ends with the conflict outcome ("Email
\* already registered", status 400 on POST /register) and leaves the users
\* table, so the first user's id, name, email and password hash, unchanged.
C1_DuplicateRegisterConflicts ==
    [][(last'.op \in RegisterOps /\ get_user_by_email(last'.args[2]) # NULL)
       => /\ last'.detail = "Email already registered"
          /\ last'.result = NULL
          /\ (last'.op = "register" => last'.status = 400)
          /\ users' = users]_vars

\* C1 witness: a register call has just been refused for a stored email.
C1_Witness ==
    /\ last.op \in RegisterOps
    /\ last.detail = "Email already registered"
    /\ get_user_by_email(last.args[2]) # NULL
    /\ get_user_by_email(last.args[2])[1].password # hash_password(last.args[3])

\* C2: a login (POST /login-user or POST /verify-password) succeeds iff a
\* user with the email exists and verify_password accepts the password
\* against the stored hash; for an absent email the outcome is "not found"
\* and verify_password is not called; no login changes a table.
C2_LoginIffVerified ==
    [][last'.op \in LoginOps
       => LET user == get_user_by_email(last'.args[1])
              r == last'.result
          IN /\ (r.outcome = "ok")
                  <=> (user # NULL /\ verify_password(last'.args[2], user[1].password))
             /\ user = NULL => (r.outcome = "not_found" /\ r.verify_calls = 0
                                /\ last'.detail = "User not found")
             /\ (last'.op = "login-user") => ((last'.status = 303) <=> (r.outcome = "ok"))
             /\ UNCHANGED <<users, user_skills, skill_requests, messages,
                            video_sessions, bookings>>]_vars

\* C2 witness: a login has just succeeded while another password is refused.
C2_Witness ==
    /\ last.op \in LoginOps
    /\ last.result.outcome = "ok"
    /\ \E p \in Passwords : LoginOutcome(last.args[1], p).outcome = "invalid"
    /\ \E e \in Emails : LoginOutcome(e, last.args[2]).outcome = "not_found"

\* The rows the records of find_matches_by_email(email) were made from, record
\* by record: record i of the first pass is made from the request
\* TeachPairs[i][2], record i of the second pass from the offer LearnPairs[i][2].
MatchSources(email) ==
    LET user == get_user_by_email(email) IN
    IF user = NULL THEN <<>> ELSE TeachPairs(user[1]) \o LearnPairs(user[1])

\* The records of find_matches_by_email(email) of the given type made from row.
RecordsReferencing(email, match_type, row) ==
    LET matches == find_matches_by_email(email) IN
    {i \in DOMAIN matches :
        /\ matches[i].match_type = match_type
        /\ MatchSources(email)[i][2] = row}

OffersOf(u, skill) ==
    {i \in DOMAIN user_skills :
        user_skills[i].user_id = u.id /\ user_skills[i].skill_name = skill}

RequestsOf(v, skill) ==
    {i \in DOMAIN skill_requests :
        skill_requests[i].user_id = v.id /\ skill_requests[i].skill_name = skill}

\* The (U, offer of U, V, request of V) with U # V and the same skill name.
ComplementaryPairs ==
    {q \in (DOMAIN users) \X (DOMAIN user_skills) \X (DOMAIN users)
           \X (DOMAIN skill_requests) :
        /\ q[1] # q[3]
        /\ user_skills[q[2]].user_id = users[q[1]].id
        /\ skill_requests[q[4]].user_id = users[q[3]].id
        /\ user_skills[q[2]].skill_name = skill_requests[q[4]].skill_name}

\* C3 as stated: for U offering X and another user V requesting X with request
\* R, the matches of U hold exactly one "you_can_teach" record referencing R
\* and the matches of V exactly one "you_can_learn" record referencing the offer.
C3_ExactlyOneRecord ==
    \A q \in ComplementaryPairs :
        /\ Cardinality(RecordsReferencing(users[q[1]].email, "you_can_teach",
                                          skill_requests[q[4]])) = 1
        /\ Cardinality(RecordsReferencing(users[q[3]].email, "you_can_learn",
                                          user_skills[q[2]])) = 1

\* C3 amended: the matches of U hold one "you_can_teach" record referencing R
\* for each offer of X that U holds (exactly one when U offers X once), and
\* the matches of V hold one "you_can_learn" record referencing the offer for
\* each request of X that V holds; each record names the other user.
C3_OneRecordPerPair ==
    \A q \in ComplementaryPairs :
        LET U == users[q[1]]
            V == users[q[3]]
            O == user_skills[q[2]]
            R == skill_requests[q[4]]
            teach == RecordsReferencing(U.email, "you_can_teach", R)
            learn == RecordsReferencing(V.email, "you_can_learn", O)
        IN /\ Cardinality(teach) = Cardinality(OffersOf(U, O.skill_name))
           /\ Cardinality(learn) = Cardinality(RequestsOf(V, R.skill_name))
           /\ Cardinality(teach) >= 1 /\ Cardinality(learn) >= 1
           /\ \A i \in teach :
                 find_matches_by_email(U.email)[i].matched_user.email = V.email
           /\ \A i \in learn :
                 find_matches_by_email(V.email)[i].matched_user.email = U.email

\* C3 witness: U offers a skill twice, V requests it, U also offers another
\* skill name, and GET matches for U has just returned the two records.
C3_Witness ==
    /\ last.op = "matches" /\ last.status = 200
    /\ \E q \in ComplementaryPairs :
          /\ users[q[1]].email = last.args[1]
          /\ Cardinality(OffersOf(users[q[1]], user_skills[q[2]].skill_name)) = 2
          /\ last.result[1].matches_found = 2

\* C4: no record of find_matches_by_email(U) has U as its matched_user, in
\* either pass, also when U both offers and requests the same skill.
C4_NoSelfMatch ==
    \A e \in Emails :
        \A i \in DOMAIN find_matches_by_email(e) :
            /\ find_matches_by_email(e)[i].matched_user.email # e
            /\ get_user_by_email(e)[1].id # MatchSources(e)[i][2].user_id

\* C4 witness: a user offering and requesting the same skill, whom another user
\* matches, has just been given a non-empty match list.
C4_Witness ==
    /\ last.op = "matches" /\ last.status = 200
    /\ last.result[1].matches_found >= 1
    /\ \E i \in DOMAIN user_skills, j \in DOMAIN skill_requests :
          /\ user_skills[i].user_id = get_user_by_email(last.args[1])[1].id
          /\ skill_requests[j].user_id = user_skills[i].user_id
          /\ skill_requests[j].skill_name = user_skills[i].skill_name

\* C5: mark_messages_as_read(user = B, other_user = A) sets to read exactly
\* the messages sent by A, received by B and unread before the call; every
\* other message is unchanged and none is added or removed; the returned
\* count is the number flipped, and get_unread_count(B) drops by that number.
C5_MarkReadFlipsExactly ==
    [][last'.op = "mark-read"
       => LET B == get_user_by_email(last'.args[1])
              A == get_user_by_email(last'.args[2])
              flipped == {i \in DOMAIN messages :
                             messages[i].is_read = 0 /\ messages'[i].is_read = 1}
          IN /\ DOMAIN messages' = DOMAIN messages
             /\ \A i \in DOMAIN messages :
                   messages'[i] =
                     IF /\ A # NULL /\ B # NULL
                        /\ messages[i].sender_id = A[1].id
                        /\ messages[i].receiver_id = B[1].id
                        /\ messages[i].is_read = 0
                     THEN [messages[i] EXCEPT !.is_read = 1]
                     ELSE messages[i]
             /\ last'.result = Cardinality(flipped)
             /\ \A e \in Emails :
                   e = last'.args[1]
                   => get_unread_count(e)' = get_unread_count(e) - last'.result]_vars

\* C5 witness: marking A -> B read has just flipped a message while B still has
\* an unread message from a third user and a message from B to A is unread.
C5_Witness ==
    /\ last.op = "mark-read" /\ last.result >= 1
    /\ last.args[1] # last.args[2]
    /\ get_unread_count(last.args[1]) >= 1
    /\ \E i \in DOMAIN messages :
          /\ messages[i].sender_id = get_user_by_email(last.args[1])[1].id
          /\ messages[i].receiver_id = get_user_by_email(last.args[2])[1].id
          /\ messages[i].is_read = 0

\* The stored messages between the users with ids a and b, in either direction.
Between(a, b) ==
    {i \in DOMAIN messages :
        \/ (messages[i].sender_id = a /\ messages[i].receiver_id = b)
        \/ (messages[i].sender_id = b /\ messages[i].receiver_id = a)}

Range(seq) == {seq[i] : i \in DOMAIN seq}

\* C6: for existing users A and B, get_conversation(A, B) is in non-decreasing
\* timestamp order and holds exactly the stored messages from A to B or from B
\* to A, each once, and none involving a third user; get_conversation(B, A)
\* holds the same messages.
C6_ConversationExact ==
    (/\ last.op = "conversation"
     /\ get_user_by_email(last.args[1]) # NULL
     /\ get_user_by_email(last.args[2]) # NULL)
    => LET conv == last.result
           A == get_user_by_email(last.args[1])[1]
           B == get_user_by_email(last.args[2])[1]
       IN /\ \A i, j \in DOMAIN conv :
                i < j => conv[i].timestamp <= conv[j].timestamp
          /\ Len(conv) = Cardinality(Between(A.id, B.id))
          /\ {conv[i].id : i \in DOMAIN conv}
               = {messages[i].id : i \in Between(A.id, B.id)}
          /\ \A i \in DOMAIN conv :
                /\ conv[i].id \in DOMAIN messages
                /\ conv[i] = ConversationEntry(messages[conv[i].id])
                /\ {conv[i].sender_email, conv[i].receiver_email}
                     = {Some(A.email), Some(B.email)}
          /\ \A back \in get_conversation(B.email, A.email) :
                Range(back) = Range(conv)

\* C6 witness: a conversation of two messages, one in each direction, has just
\* been returned in an order other than the order of insertion, while a
\* message with a third user is stored.
C6_Witness ==
    /\ last.op = "conversation"
    /\ Len(last.result) = 2
    /\ last.result[1].id > last.result[2].id
    /\ last.result[1].sender_id = last.result[2].receiver_id
    /\ last.result[1].sender_id # last.result[1].receiver_id
    /\ Len(messages) > 2

\* The request just handled is update_video_session_status(room of row i, status).
StatusUpdateOf(resp, i, status) ==
    /\ resp.op = "video-status"
    /\ resp.status = 200
    /\ resp.result = Some(i)
    /\ resp.args[2] = status

\* C7: the first update_video_session_status(room, "active") sets started_at,
\* and no later status update or decline on the room changes it; started_at
\* is set by nothing else.
C7_StartedAtSetOnce ==
    [][\A i \in DOMAIN video_sessions :
          LET before == video_sessions[i]
              after == video_sessions'[i]
          IN /\ before.started_at # NULL => after.started_at = before.started_at
             /\ (StatusUpdateOf(last', i, "active") /\ before.started_at = NULL)
                  => after.started_at = Some(now)
             /\ (before.started_at = NULL /\ after.started_at # NULL)
                  => StatusUpdateOf(last', i, "active")]_vars

\* C7 witness: "active" has just been applied again, at a later time, to a
\* session that was started and ended before.
C7_Witness ==
    \E i \in DOMAIN video_sessions :
        /\ StatusUpdateOf(last, i, "active")
        /\ video_sessions[i].started_at # NULL
        /\ video_sessions[i].ended_at # NULL
        /\ video_sessions[i].started_at[1] < video_sessions[i].ended_at[1]
        /\ video_sessions[i].ended_at[1] < now

\* C8: update_video_session_status(room, "ended") on an active session sets
\* ended_at and sets duration_seconds to the whole seconds elapsed since
\* started_at, also when a day (86400 s) or more has elapsed.
C8_DurationIsElapsedSeconds ==
    [][\A i \in DOMAIN video_sessions :
          (/\ StatusUpdateOf(last', i, "ended")
           /\ video_sessions[i].status = "active"
           /\ video_sessions[i].started_at # NULL)
          => /\ video_sessions'[i].ended_at = Some(now)
             /\ video_sessions'[i].duration_seconds
                  = Some(now - video_sessions[i].started_at[1])]_vars

\* C9: once a session is "ended" with a duration recorded, applying
\* update_video_session_status(room, "ended") again leaves duration_seconds
\* unchanged.
C9_EndedAgainKeepsDuration ==
    [][\A i \in DOMAIN video_sessions :
          (/\ StatusUpdateOf(last', i, "ended")
           /\ video_sessions[i].status = "ended"
           /\ video_sessions[i].duration_seconds # NULL)
          => video_sessions'[i].duration_seconds
               = video_sessions[i].duration_seconds]_vars

\* The transitions of the documented state machine.
LinearTransitions ==
    {<<"created", "active">>, <<"active", "ended">>, <<"created", "declined">>}

\* C10: under create, decline and status updates to "active" or "ended", a
\* session's status changes only along created -> active, active -> ended and
\* created -> declined (so "ended" and "declined" are terminal and "active" is
\* never declined or re-created), and a declined session has neither
\* started_at nor ended_at.
C10_LinearStateMachine ==
    [][(\/ last'.op = "video-decline"
        \/ (last'.op = "video-status" /\ last'.args[2] \in {"active", "ended"}))
       => \A i \in DOMAIN video_sessions :
             /\ video_sessions'[i].status # video_sessions[i].status
                  => <<video_sessions[i].status, video_sessions'[i].status>>
                       \in LinearTransitions
             /\ video_sessions'[i].status = "declined"
                  => /\ video_sessions'[i].started_at = NULL
                     /\ video_sessions'[i].ended_at = NULL]_vars

\* The statuses the data model documents for a video session.
VideoStatusEnum == {"created", "active", "ended", "declined"}

\* C11: every stored video session has a status in {created, active, ended,
\* declined}, whatever status string POST /video/update-status is given.
C11_StatusInEnum ==
    \A i \in DOMAIN video_sessions :
        video_sessions[i].status \in VideoStatusEnum

\* C12: a session with a duration_seconds has both started_at and ended_at
\* set; a session that is "ended" without ever having been active (started_at
\* unset) has ended_at set and no duration_seconds.
C12_DurationNeedsBothStamps ==
    \A i \in DOMAIN video_sessions :
        LET s == video_sessions[i] IN
        /\ s.duration_seconds # NULL
             => (s.started_at # NULL /\ s.ended_at # NULL)
        /\ (s.status = "ended" /\ s.started_at = NULL)
             => (s.ended_at # NULL /\ s.duration_seconds = NULL)

\* C12 witness: "ended" has just been applied to a session that was never
\* active: ended_at is stamped and no duration is recorded.
C12_Witness ==
    \E i \in DOMAIN video_sessions :
        /\ StatusUpdateOf(last, i, "ended")
        /\ video_sessions[i].status = "ended"
        /\ video_sessions[i].started_at = NULL
        /\ video_sessions[i].ended_at = Some(now)
        /\ video_sessions[i].duration_seconds = NULL

\* The statuses the data model documents for a booking.
BookingStatusEnum == {"pending", "accepted", "declined"}

\* C13: every stored booking has a status in {pending, accepted, declined}: a
\* new booking starts "pending" and POST /api/bookings/{id}/update never
\* stores a value outside that set.
C13_BookingStatusInEnum ==
    \A i \in DOMAIN bookings : bookings[i].status \in BookingStatusEnum

\* The request answered by resp named a user that is not registered, or a
\* room no stored session has.
AbsentReference(resp) ==
    \/ /\ resp.op \in {"matches", "offer", "request", "messages", "unread"}
       /\ get_user_by_email(resp.args[1]) = NULL
    \/ /\ resp.op \in {"send", "conversation", "mark-read"}
       /\ \/ get_user_by_email(resp.args[1]) = NULL
          \/ get_user_by_email(resp.args[2]) = NULL
    \/ /\ resp.op \in {"video-status", "video-room", "video-decline"}
       /\ SessionByRoom(resp.args[1]) = 0

\* C14: a request that references an absent user, video session or room is
\* answered 404 and changes no stored row; this for matches, add-offer,
\* add-request, send-message, get-messages, conversation, mark-read,
\* unread-count, update-status, room-info and decline.
C14_AbsentReferenceIs404 ==
    [][AbsentReference(last')
       => /\ last'.status = 404
          /\ UNCHANGED <<users, user_skills, skill_requests, messages,
                         video_sessions, bookings>>]_vars

\* C15: send_message returns no result and inserts no row when the sender or
\* the receiver is absent; otherwise it inserts exactly one message from the
\* sender to the receiver with the read flag unset, so that the receiver's
\* unread count grows by exactly one while every existing message and every
\* other user's unread count stay as they were.
C15_SendInsertsOneUnread ==
    [][last'.op = "send"
       => \A s, r \in Emails :
            (s = last'.args[1] /\ r = last'.args[2])
            => IF get_user_by_email(s) = NULL \/ get_user_by_email(r) = NULL
               THEN /\ last'.result = NULL
                    /\ messages' = messages
               ELSE /\ last'.result # NULL
                    /\ Len(messages') = Len(messages) + 1
                    /\ \A i \in DOMAIN messages : messages'[i] = messages[i]
                    /\ LET m == messages'[Len(messages')] IN
                       /\ m.sender_id = get_user_by_email(s)[1].id
                       /\ m.receiver_id = get_user_by_email(r)[1].id
                       /\ m.content = last'.args[3]
                       /\ m.is_read = 0
                    /\ \A e \in Emails :
                         get_unread_count(e)' =
                             get_unread_count(e) + (IF e = r THEN 1 ELSE 0)]_vars

\* C15 witness: a message has just been sent to a receiver who already had an
\* unread message, while a message already read is stored.
C15_Witness ==
    /\ last.op = "send"
    /\ last.status = 200
    /\ get_unread_count(last.args[2]) >= 2
    /\ \E i \in DOMAIN messages : messages[i].is_read = 1
    /\ messages[Len(messages)].is_read = 0

\* C16: the poll for E reports a call iff some session has user2_email = E and
\* status exactly "created", and the call it reports is then a most recently
\* created one of these; once every session addressed to E is active, ended
\* or declined it reports no call; a session in which E is only the caller is
\* never reported.
C16_PollReportsNewestRinging ==
    [][last'.op = "check-incoming"
       => \A e \in Emails :
            e = last'.args[1]
            => LET ringing == {i \in DOMAIN video_sessions :
                                 /\ video_sessions[i].user2_email = e
                                 /\ video_sessions[i].status = "created"}
               IN IF ringing = {}
                  THEN last'.result = [has_call |-> FALSE]
                  ELSE /\ last'.result.has_call
                       /\ \E i \in ringing :
                            /\ \A j \in ringing : video_sessions[j].created_at
                                                    <= video_sessions[i].created_at
                            /\ last'.result.room_id = video_sessions[i].room_id
                            /\ last'.result.caller = video_sessions[i].user1_email]_vars

\* C16 witness: two calls to the same user were ringing, created at different
\* times, and the poll has just reported the later one.
C16_Witness ==
    /\ last.op = "check-incoming"
    /\ last.result.has_call
    /\ \E i, j \in DOMAIN video_sessions :
          /\ video_sessions[i].user2_email = last.args[1]
          /\ video_sessions[j].user2_email = last.args[1]
          /\ video_sessions[i].status = "created"
          /\ video_sessions[j].status = "created"
          /\ video_sessions[i].created_at < video_sessions[j].created_at
          /\ last.result.room_id = video_sessions[j].room_id

\* The (offer o of U, request r of another user) with the same skill name, as
\* pairs of row ids.
TeachablePairs(U) ==
    {<<user_skills[o].id, skill_requests[r].id>> :
        <<o, r>> \in {q \in (DOMAIN user_skills) \X (DOMAIN skill_requests) :
                        /\ user_skills[q[1]].user_id = U.id
                        /\ skill_requests[q[2]].user_id # U.id
                        /\ user_skills[q[1]].skill_name
                             = skill_requests[q[2]].skill_name}}

\* The (request n of U, offer f of another user) with the same skill name, as
\* pairs of row ids.
LearnablePairs(U) ==
    {<<skill_requests[n].id, user_skills[f].id>> :
        <<n, f>> \in {q \in (DOMAIN skill_requests) \X (DOMAIN user_skills) :
                        /\ skill_requests[q[1]].user_id = U.id
                        /\ user_skills[q[2]].user_id # U.id
                        /\ skill_requests[q[1]].skill_name
                             = user_skills[q[2]].skill_name}}

\* C17: find_matches_by_email(U) holds one "you_can_teach" record for every
\* pair (offer of U, request of another user) with equal, case-sensitive skill
\* names, one "you_can_learn" record for every pair (request of U, offer of
\* another user) with equal names, and nothing else, so that repeated offers
\* or requests multiply the records; an unknown email gives the empty list.
C17_OneRecordPerPairNothingElse ==
    \A e \in Emails :
        LET user == get_user_by_email(e)
            matches == find_matches_by_email(e)
            src == MatchSources(e)
            teach == {i \in DOMAIN matches : matches[i].match_type = "you_can_teach"}
            learn == {i \in DOMAIN matches : matches[i].match_type = "you_can_learn"}
        IN IF user = NULL
           THEN matches = <<>>
           ELSE /\ teach \cup learn = DOMAIN matches
                /\ {<<src[i][1].id, src[i][2].id>> : i \in teach}
                     = TeachablePairs(user[1])
                /\ Cardinality(teach) = Cardinality(TeachablePairs(user[1]))
                /\ {<<src[i][1].id, src[i][2].id>> : i \in learn}
                     = LearnablePairs(user[1])
                /\ Cardinality(learn) = Cardinality(LearnablePairs(user[1]))
                /\ \A i \in teach :
                      /\ matches[i].your_skill = src[i][1].skill_name
                      /\ matches[i].their_request = src[i][2].description
                      /\ matches[i].matched_user.email
                           = get_user_by_id(src[i][2].user_id)[1].email
                /\ \A i \in learn :
                      /\ matches[i].skill_you_need = src[i][1].skill_name
                      /\ matches[i].their_skill_level = src[i][2].skill_level
                      /\ matches[i].matched_user.email
                           = get_user_by_id(src[i][2].user_id)[1].email

\* C17 witness: a user who requests "guitar" and "Guitar" has just been given
\* two "you_can_learn" records, one for each of another user's two offers of
\* "guitar", and none for "Guitar".
C17_Witness ==
    /\ last.op = "matches" /\ last.status = 200
    /\ last.result[1].matches_found = 2
    /\ \A i \in DOMAIN last.result[1].matches :
          /\ last.result[1].matches[i].match_type = "you_can_learn"
          /\ last.result[1].matches[i].skill_you_need = "guitar"
    /\ \E n \in DOMAIN skill_requests :
          /\ skill_requests[n].user_id = get_user_by_email(last.args[1])[1].id
          /\ skill_requests[n].skill_name = "Guitar"

\* C18: under any interleaving of two concurrent register requests for the
\* same email, at most one user row with that email ever exists, and the
\* request that does not create the user ends with the conflict outcome, not
\* with an unhandled error.
C18_RaceLoserGetsConflict ==
    /\ \A i, j \in DOMAIN users : users[i].email = users[j].email => i = j
    /\ \A k \in DOMAIN pending :
          pending[k].pc = "done" => pending[k].outcome \in {"created", "conflict"}

\* The unread messages from the user with email a to the user with email b.
UnreadFromTo(a, b) ==
    LET sender == get_user_by_email(a)
        receiver == get_user_by_email(b)
    IN IF sender = NULL \/ receiver = NULL
       THEN {}
       ELSE {i \in DOMAIN messages :
               /\ messages[i].sender_id = sender[1].id
               /\ messages[i].receiver_id = receiver[1].id
               /\ messages[i].is_read = 0}

\* C19: over any sequence of send, mark-read, conversation and unread-count
\* requests, the read flag of a message only goes from unread to read, no
\* message is deleted or has its sender, receiver or content changed, and a
\* second mark-read for the same pair with no send in between returns 0 and
\* changes nothing.  The last part is stated by its steps: a mark-read leaves
\* no unread message of the pair, only a send adds an unread message, and a
\* mark-read that finds no unread message of the pair returns 0 and changes
\* nothing.
C19_ReadFlagMonotoneMarkReadIdempotent ==
    [][/\ Len(messages') >= Len(messages)
       /\ \A i \in DOMAIN messages :
            /\ messages'[i].id = messages[i].id
            /\ messages'[i].sender_id = messages[i].sender_id
            /\ messages'[i].receiver_id = messages[i].receiver_id
            /\ messages'[i].content = messages[i].content
            /\ messages[i].is_read = 1 => messages'[i].is_read = 1
       /\ last'.op # "send"
            => \A i \in DOMAIN messages' :
                 messages'[i].is_read = 0
                 => (i \in DOMAIN messages /\ messages[i].is_read = 0)
       /\ last'.op = "mark-read"
            => \A a, b \in Emails :
                 (b = last'.args[1] /\ a = last'.args[2])
                 => /\ UnreadFromTo(a, b)' = {}
                    /\ UnreadFromTo(a, b) = {}
                         => (last'.result = 0 /\ messages' = messages)
       /\ (last.op = "mark-read" /\ last'.op = "mark-read" /\ last'.args = last.args)
            => (last'.result = 0 /\ messages' = messages)]_vars

\* C19 witness: a mark-read has just returned 0 for a pair whose messages had
\* all been marked read before, while an unread message of another pair is
\* stored.
C19_Witness ==
    /\ last.op = "mark-read"
    /\ last.result = 0
    /\ \E i \in DOMAIN messages :
          /\ messages[i].is_read = 1
          /\ get_user_by_email(last.args[1]) # NULL
          /\ get_user_by_email(last.args[2]) # NULL
          /\ messages[i].receiver_id = get_user_by_email(last.args[1])[1].id
          /\ messages[i].sender_id = get_user_by_email(last.args[2])[1].id
    /\ \E j \in DOMAIN messages : messages[j].is_read = 0

====
